---- MODULE Spec2Model ----
(***************************************************************************)
(* Model of the Kafka -> email notification pipeline:                      *)
(*   NotificationConsumer (consumers/notificationConsumer.js) and          *)
(*   EmailService         (services/emailService.js).                      *)
(*   NotificationService  (index.js) with config/kafka.js.                 *)
(* One JavaScript macrotask (with the microtasks it triggers) is one       *)
(* action, since Node runs each to completion; an await of a call into the *)
(* broker client or the mail transport ends the action.                    *)
(***************************************************************************)
EXTENDS Integers, Sequences, FiniteSets, TLC

\* ------------------------------------------------------------ bounds
\* Records the broker client hands over in one run.
MaxRecords == 2
\* Longest `to` string of the validator's input space.
MaxToLen == 5
\* Longest message body given to sendEmail on its own.
MaxBodyLen == 4

\* ------------------------------------------------- program constants
\* Faulty variant of retryAttempts: one attempt too many.
retryAttemptsOffByOne == 3 + 1
\* EmailService.constructor: this.retryAttempts = 3
retryAttempts == 3
\* EmailService.constructor: this.retryDelay = 1000 (ms)
retryDelay == 1000
\* NotificationConsumer.constructor: this.messageProcessingTimeout = 30000 (ms)
messageProcessingTimeout == 30000

\* --------------------------------------------------- JavaScript values
\* A JS value: its typeof tag and, per tag, its boolean, number or string
\* (a sequence of one-character strings).  "null" is kept apart from
\* "object" although typeof null is "object"; see typeof below.
JsVal(tag, bv, nv, sv) == [t |-> tag, b |-> bv, n |-> nv, s |-> sv]
JsUndefined == JsVal("undefined", FALSE, 0, <<>>)
JsNull == JsVal("null", FALSE, 0, <<>>)
JsBool(bv) == JsVal("boolean", bv, 0, <<>>)
JsNum(nv) == JsVal("number", FALSE, nv, <<>>)
JsStr(sv) == JsVal("string", FALSE, 0, sv)
JsObject == JsVal("object", FALSE, 0, <<>>)
JsArray == JsVal("array", FALSE, 0, <<>>)

\* The typeof operator.
typeof(v) ==
  IF v.t \in {"null", "array"} THEN "object" ELSE v.t

\* The ! operator: true of undefined, null, false, 0 and "".
Falsy(v) ==
  \/ v.t \in {"undefined", "null"}
  \/ v.t = "boolean" /\ ~v.b
  \/ v.t = "number" /\ v.n = 0
  \/ v.t = "string" /\ v.s = <<>>

\* Characters \s matches and String.prototype.trim strips.
Whitespace == {" ", "\n"}

RECURSIVE trimStart(_)
trimStart(s) ==
  IF s # <<>> /\ Head(s) \in Whitespace THEN trimStart(Tail(s)) ELSE s

RECURSIVE trimEnd(_)
trimEnd(s) ==
  IF s # <<>> /\ s[Len(s)] \in Whitespace
  THEN trimEnd(SubSeq(s, 1, Len(s) - 1))
  ELSE s

\* String.prototype.trim
trim(s) == trimEnd(trimStart(s))

\* The character class [^\s@]
NotSpaceNotAt(c) == c \notin Whitespace /\ c # "@"

\* Faulty variant of emailRegexTest: the pattern without its "\." part.
emailRegexNoDot(s) ==
  \E i \in 1..Len(s) :
    /\ s[i] = "@"
    /\ 1 < i /\ i < Len(s)
    /\ \A k \in 1..Len(s) : k # i => NotSpaceNotAt(s[k])

\* /^[^\s@]+@[^\s@]+\.[^\s@]+$/.test(s): i is where "@" matches, j where
\* "\." matches; every other position is matched by a [^\s@]+ group.
emailRegexTest(s) ==
  \E i \in 1..Len(s), j \in 1..Len(s) :
    /\ s[i] = "@" /\ s[j] = "."
    /\ 1 < i /\ i + 1 < j /\ j < Len(s)
    /\ \A k \in 1..Len(s) : k # i => NotSpaceNotAt(s[k])

\* ------------------------------------------------------------- errors
\* An Error object: its kind, the field it names (validation errors) and
\* the backend call that raised it (delivery errors; every backend error
\* is an object of its own).
Err(type, field, call) == [type |-> type, field |-> field, call |-> call]
NoError == Err("None", "", 0)
\* No verdict yet.
Pending == Err("Pending", "", 0)

\* ------------------------------------------------------ decoded payload
\* What JSON.parse returned: an object with its own properties f (absent
\* keys read as undefined), or a value that is not an object.
requiredFields == <<"to", "subject", "message">>
Keys == {"to", "subject", "message", "extraField"}
NoProps == [k \in Keys |-> JsUndefined]
Decoded(tag, props) == [t |-> tag, f |-> props]

\* messageData[field]: a TypeError on null, undefined for a key a
\* primitive or an array does not have.
PropThrows(messageData) == messageData.t = "null"
Prop(messageData, field) == messageData.f[field]

\* Faulty variant of FieldCheck: the emptiness check dropped.
FieldCheckNoEmpty(v, field) ==
  IF Falsy(v) THEN Err("MissingField", field, 0)
  ELSE IF typeof(v) # "string" THEN Err("WrongType", field, 0)
  ELSE NoError

\* The body of the loop over requiredFields, for one field.
FieldCheck(v, field) ==
  IF Falsy(v) THEN Err("MissingField", field, 0)
  ELSE IF typeof(v) # "string" THEN Err("WrongType", field, 0)
  ELSE IF Len(trim(v.s)) = 0 THEN Err("EmptyField", field, 0)
  ELSE NoError

\* The for loop of _validateMessage from field k on: the first failing
\* check of the first failing field is thrown.
RECURSIVE ValidateFields(_, _)
ValidateFields(messageData, k) ==
  IF k > Len(requiredFields) THEN NoError
  ELSE LET e == FieldCheck(Prop(messageData, requiredFields[k]), requiredFields[k])
       IN IF e # NoError THEN e ELSE ValidateFields(messageData, k + 1)

\* NotificationConsumer._validateMessage: NoError, or the error thrown.
_validateMessage(messageData) ==
  IF PropThrows(messageData) THEN Err("TypeError", "to", 0)
  ELSE LET e == ValidateFields(messageData, 1)
       IN IF e # NoError THEN e
          ELSE IF ~emailRegexTest(Prop(messageData, "to").s)
               THEN Err("InvalidAddressFormat", "to", 0)
               ELSE NoError

\* ------------------------------------------------------------ payload
\* message.value: null, or bytes that are empty, not well-formed JSON, or
\* the JSON text of the value `data`.
Payload(kind, data) == [kind |-> kind, data |-> data]
NoData == Decoded("undefined", NoProps)
NoPayload == Payload("none", NoData)

\* Faulty variant of _parseMessage: a payload that cannot be parsed is
\* passed on as an empty object instead of being thrown.
_parseMessageLenient(value) ==
  IF value.kind = "json"
  THEN [err |-> NoError, data |-> value.data, parses |-> 1]
  ELSE [err |-> NoError, data |-> Decoded("object", NoProps),
        parses |-> IF value.kind = "malformed" THEN 1 ELSE 0]

\* NotificationConsumer._parseMessage: the error thrown or the decoded
\* data, and the number of JSON.parse calls made.
_parseMessage(value) ==
  IF value.kind \in {"null", "empty"}
  THEN [err |-> Err("Decode", "", 0), data |-> NoData, parses |-> 0]
  ELSE IF value.kind = "malformed"
  THEN [err |-> Err("Decode", "", 0), data |-> NoData, parses |-> 1]
  ELSE [err |-> NoError, data |-> value.data, parses |-> 1]

\* ------------------------------------------------------- email service
\* Faulty variant of _isValidEmail: no "." before the "@".
_isValidEmailPlainLocal(email) ==
  \E i \in 1..Len(email), j \in 1..Len(email) :
    /\ email[i] = "@" /\ email[j] = "."
    /\ 1 < i /\ i + 1 < j /\ j < Len(email)
    /\ \A k \in 1..Len(email) : k # i => NotSpaceNotAt(email[k])
    /\ \A k \in 1..(i - 1) : email[k] # "."

\* EmailService._isValidEmail, with its own copy of the pattern
\* /^[^\s@]+@[^\s@]+\.[^\s@]+$/.
_isValidEmail(email) ==
  \E i \in 1..Len(email), j \in 1..Len(email) :
    /\ email[i] = "@" /\ email[j] = "."
    /\ 1 < i /\ i + 1 < j /\ j < Len(email)
    /\ \A k \in 1..Len(email) : k # i => NotSpaceNotAt(email[k])

\* EmailService._validateEmailParams: NoError, or the error thrown.
_validateEmailParams(to, subject, message) ==
  IF Falsy(to) \/ typeof(to) # "string" \/ ~_isValidEmail(to.s)
  THEN Err("InvalidParams", "to", 0)
  ELSE IF Falsy(subject) \/ typeof(subject) # "string" \/ Len(trim(subject.s)) = 0
  THEN Err("InvalidParams", "subject", 0)
  ELSE IF Falsy(message) \/ typeof(message) # "string" \/ Len(trim(message.s)) = 0
  THEN Err("InvalidParams", "message", 0)
  ELSE NoError

\* EmailService._isHtmlContent: /<[^>]*>/g.test(content) on a pattern
\* object made by the call: "<" at i, no ">" up to the ">" at j.
_isHtmlContent(content) ==
  \E i \in 1..Len(content), j \in 1..Len(content) :
    /\ i < j
    /\ content[i] = "<" /\ content[j] = ">"
    /\ \A k \in (i + 1)..(j - 1) : content[k] # ">"

\* The characters of the replacement strings.
br == <<"<", "b", "r", ">">>
nbsp == <<"&", "n", "b", "s", "p", ";">>

\* text.replace(/\n/g, '<br>')
RECURSIVE replaceNewlines(_)
replaceNewlines(text) ==
  IF text = <<>> THEN <<>>
  ELSE (IF Head(text) = "\n" THEN br ELSE <<Head(text)>>)
         \o replaceNewlines(Tail(text))

\* text.replace(/  /g, '&nbsp;&nbsp;'): matches are found left to right
\* and do not overlap.
RECURSIVE replaceSpacePairs(_)
replaceSpacePairs(text) ==
  IF Len(text) >= 2 /\ text[1] = " " /\ text[2] = " "
  THEN nbsp \o nbsp \o replaceSpacePairs(SubSeq(text, 3, Len(text)))
  ELSE IF text = <<>> THEN <<>>
  ELSE <<Head(text)>> \o replaceSpacePairs(Tail(text))

\* EmailService._convertToHtml
_convertToHtml(text) == replaceSpacePairs(replaceNewlines(text))

\* Faulty variant of _stripHtml: the tags are left in.
_stripHtmlNothing(html) == html

\* EmailService._stripHtml: html.replace(/<[^>]*>/g, ''); a match starts
\* at a "<" that has a ">" after it and ends at the first such ">".
RECURSIVE _stripHtml(_)
_stripHtml(html) ==
  IF html = <<>> THEN <<>>
  ELSE IF Head(html) = "<" /\ \E j \in 2..Len(html) : html[j] = ">"
  THEN LET j == CHOOSE j \in 2..Len(html) :
                  html[j] = ">" /\ \A k \in 2..(j - 1) : html[k] # ">"
       IN _stripHtml(SubSeq(html, j + 1, Len(html)))
  ELSE <<Head(html)>> \o _stripHtml(Tail(html))

\* The html and text properties of the emailData object sendEmail builds
\* (from, to and subject are passed on as given).
EmailData(html, text) == [html |-> html, text |-> text]
NoEmailData == EmailData(<<>>, <<>>)
BuildEmailData(msg) ==
  EmailData(IF _isHtmlContent(msg) THEN msg ELSE _convertToHtml(msg),
            IF _isHtmlContent(msg) THEN _stripHtml(msg) ELSE msg)

\* What sendEmail returns on success, and the value of "no result".
Result(ok, messageId, attempt) ==
  [success |-> ok, messageId |-> messageId, attempt |-> attempt]
NoResult == Result(FALSE, "", 0)

\* Faulty variant of SendSuccessResult: the attempt number is not reported.
SendSuccessResultFirst(messageId, attempt) == Result(TRUE, messageId, 1)

\* sendEmail's return value after a successful attempt.
SendSuccessResult(messageId, attempt) == Result(TRUE, messageId, attempt)

\* Faulty variant of IsLastAttempt: gives up one attempt early.
IsLastAttemptEarly(attempt) == attempt = retryAttempts - 1

\* if (attempt === this.retryAttempts)
IsLastAttempt(attempt) == attempt = retryAttempts

\* Faulty variant of RetryDelayFor: the same delay after every attempt.
RetryDelayFixed(attempt) == retryDelay

\* this.retryDelay * attempt
RetryDelayFor(attempt) == retryDelay * attempt

\* Kinds of error transporter.sendMail may report.
ErrorKinds == {"Transient", "Permanent"}

\* Faulty variant of RetriesAfter: a permanent rejection is not retried.
RetriesAfterTransient(attempt, error) ==
  ~IsLastAttempt(attempt) /\ error.type # "Permanent"

\* catch (error) of sendEmail's loop: it goes on to the delay and the
\* next attempt unless this was the last one; error is only logged.
RetriesAfter(attempt, error) == ~IsLastAttempt(attempt)

\* ------------------------------------------------------------ outcomes
\* What _processMessage logs for a record: nothing yet, the error it
\* caught before dispatch ("Rejected"), the result _sendEmailWithTimeout
\* resolved with ("Delivered") or the error it rejected with ("Failed").
Outcome(kind, err, result) == [kind |-> kind, err |-> err, result |-> result]
NoOutcome == Outcome("None", NoError, NoResult)

\* Faulty variant of Settle: a resolve after a reject replaces it.
SettleSuccessWins(current, new) ==
  IF current.kind = "None" \/ new.kind = "Delivered" THEN new ELSE current

\* Faulty variant of Settle: a later resolve/reject overwrites the first.
SettleLast(current, new) == new

\* resolve/reject of the promise of _sendEmailWithTimeout: only the first
\* call settles it.
Settle(current, new) == IF current.kind = "None" THEN new ELSE current

\* Faulty variant of Caught: validation errors are not caught.
CaughtOnlyDelivery(e) ==
  e.type \notin {"MissingField", "WrongType", "EmptyField", "InvalidAddressFormat"}

\* catch (error) of _processMessage: every error thrown in the try block.
Caught(e) == TRUE

\* ------------------------------------------------------------- state
VARIABLES
  service,       \* NotificationService.start: "new", "connected", "started",
                 \* "catch" (its catch block entered) or "failed"
  failedAt,      \* the step of start that threw, "none" if none did
  consumer,      \* service.consumer: "null", "created", "connected",
                 \* "subscribed" or "disconnected"
  notificationConsumer, \* service.notificationConsumer: "null" or "created"
  handlersInstalled,    \* _setupGracefulShutdown has run
  isShuttingDown,       \* service.isShuttingDown
  shutdown,      \* the shutdown call that runs the sequence
  shutdownCalls, \* calls of NotificationService.shutdown
  closeCalls,    \* calls of transporter.close
  disconnectCalls, \* calls of consumer.disconnect
  verifyCalls,   \* calls of transporter.verify
  exited,        \* process.exit has been called (the exit code, 0 after
                 \* a signal and 1 otherwise, is left out)
  started,       \* NotificationConsumer.start: "no", "ok" or "failed"
  transporter,   \* emailService.transporter: "null", "open" or "closed"
  isInitialized, \* emailService.isInitialized
  isRunning,     \* notificationConsumer.isRunning
  registered,    \* consumer.run has registered the eachMessage handler
  handed,        \* number of records the broker client has handed over
  payload,       \* per record: message.value
  handler,       \* per record: "idle", "awaiting", "returned" or "threw"
  outcome,       \* per record: what _processMessage logged
  parseCalls,    \* per record: calls of _parseMessage
  jsonParses,    \* per record: calls of JSON.parse
  validateCalls, \* per record: calls of _validateMessage
  sendCalls,     \* per record: calls of transporter.sendMail
  responses,     \* per record: the backend's answers, in order
  svc,           \* per record: the sendEmail call (its retry loop)
  timer,         \* per record: the timer of _sendEmailWithTimeout
  decoded,       \* validator input space: the decoded object
  verdict,       \* validator input space: what _validateMessage threw
  verdictAgain,  \* what a second _validateMessage call on it threw
  body,          \* sendEmail on its own: its message argument
  run,           \* sendEmail on its own: the calls made with it
  identity       \* per record: the partition and offset the broker gives it

vars ==
  <<service, failedAt, consumer, notificationConsumer, handlersInstalled,
    isShuttingDown, shutdown, shutdownCalls, closeCalls, disconnectCalls,
    verifyCalls, exited, started, transporter, isInitialized, isRunning, registered, handed,
    payload, handler, outcome, parseCalls, jsonParses, validateCalls,
    sendCalls, responses, svc, timer, decoded, verdict, verdictAgain, body, run, identity>>

lifecycleVars ==
  <<service, failedAt, consumer, notificationConsumer, handlersInstalled,
    isShuttingDown, shutdown, shutdownCalls, closeCalls, disconnectCalls,
    verifyCalls, exited, started, transporter, isInitialized, isRunning,
    registered>>
pipelineVars ==
  <<handed, payload, handler, outcome, parseCalls, jsonParses, validateCalls,
    sendCalls, responses, svc, timer>>
senderVars == <<body, run>>
validatorVars == <<decoded, verdict, verdictAgain>>
standaloneVars == <<validatorVars, senderVars, identity>>

Records == 1..MaxRecords

\* One-character strings to sequences, for the literals below.
a1 == <<"a">>
addr == <<"a", "@", "a", ".", "a">>

\* A decoded JSON object with the given properties.
Obj(to, subject, message, extraField) ==
  Decoded("object",
    [k \in Keys |-> CASE k = "to" -> to
                      [] k = "subject" -> subject
                      [] k = "message" -> message
                      [] OTHER -> extraField])

\* The payloads the broker hands over: one of each kind the handler tells
\* apart, the valid one with an unknown field.
Payloads ==
  { Payload("null", NoData),
    Payload("empty", NoData),
    Payload("malformed", NoData),
    Payload("json", Decoded("null", NoProps)),
    Payload("json", Decoded("string", NoProps)),
    Payload("json", Obj(JsUndefined, JsStr(a1), JsStr(a1), JsUndefined)),
    Payload("json", Obj(JsStr(addr), JsNum(5), JsStr(a1), JsUndefined)),
    Payload("json", Obj(JsStr(addr), JsStr(a1), JsStr(<<" ">>), JsUndefined)),
    Payload("json", Obj(JsStr(<<"a", ".", "a">>), JsStr(a1), JsStr(a1), JsUndefined)),
    Payload("json", Obj(JsStr(addr), JsStr(a1), JsStr(a1), JsStr(a1))) }

\* info.messageId values the backend may return.
DeliveryIds == {"id1", "id2"}

\* A backend answer: the callback of transporter.sendMail with info
\* (ok) or with an error.
Response(ok, messageId, err) == [ok |-> ok, messageId |-> messageId, err |-> err]

\* The sendEmail call of a record: where its retry loop stands, the
\* value it returned or the error it threw, and the totalAttempts it
\* logged with 'All email send attempts failed'.
Svc(pc, attempt, delayLeft, result, err, totalAttempts) ==
  [pc |-> pc, attempt |-> attempt, delayLeft |-> delayLeft,
   result |-> result, err |-> err, totalAttempts |-> totalAttempts]
SvcIdle == Svc("idle", 0, 0, NoResult, NoError, 0)

\* A sendEmail call made on its own: where its loop stands, the emailData
\* it built, the answers of the backend so far ("ok" or the kind of the
\* error), the delays it has started, the payloads it has given to
\* transporter.sendMail, and the error it threw.
Runs == 1..2
Run(pc, attempt, emailData, answers, delays, sent, err) ==
  [pc |-> pc, attempt |-> attempt, emailData |-> emailData,
   answers |-> answers, delays |-> delays, sent |-> sent, err |-> err]
RunIdle == Run("idle", 0, NoEmailData, <<>>, <<>>, <<>>, NoError)

\* The partition and offset of a record (the topic is the one the
\* consumer subscribed to); one partition read in offset order.
Identity(partition, offset) == [partition |-> partition, offset |-> offset]
InOrder == [i \in Records |-> Identity(0, i - 1)]

Timer(st, left) == [st |-> st, left |-> left]
NoTimer == Timer("none", 0)

\* The shutdown call that got past the isShuttingDown guard: where it
\* stands ("none", "closing", "disconnecting", "returned", "threw") and
\* whether transporter.close and consumer.disconnect threw.
ShutdownState(pc, closeThrew, disconnectThrew) ==
  [pc |-> pc, closeThrew |-> closeThrew, disconnectThrew |-> disconnectThrew]
NoShutdown == ShutdownState("none", FALSE, FALSE)

\* The state after construction of the three objects.
Constructed ==
  /\ service = "new"
  /\ failedAt = "none"
  /\ consumer = "null"
  /\ notificationConsumer = "null"
  /\ handlersInstalled = FALSE
  /\ isShuttingDown = FALSE
  /\ shutdown = NoShutdown
  /\ shutdownCalls = 0
  /\ closeCalls = 0
  /\ disconnectCalls = 0
  /\ verifyCalls = 0
  /\ exited = FALSE
  /\ started = "no"
  /\ transporter = "null"
  /\ isInitialized = FALSE
  /\ isRunning = FALSE
  /\ registered = FALSE

Init ==
  /\ Constructed
  /\ handed = 0
  /\ payload = [i \in Records |-> NoPayload]
  /\ handler = [i \in Records |-> "idle"]
  /\ outcome = [i \in Records |-> NoOutcome]
  /\ parseCalls = [i \in Records |-> 0]
  /\ jsonParses = [i \in Records |-> 0]
  /\ validateCalls = [i \in Records |-> 0]
  /\ sendCalls = [i \in Records |-> 0]
  /\ responses = [i \in Records |-> <<>>]
  /\ svc = [i \in Records |-> SvcIdle]
  /\ timer = [i \in Records |-> NoTimer]
  /\ decoded = NoData
  /\ verdict = Pending
  /\ verdictAgain = Pending
  /\ body = <<>>
  /\ run = [r \in Runs |-> RunIdle]
  /\ identity = InOrder

\* ----------------------------------------------------------- lifecycle
\* The process runs until process.exit.
Alive == ~exited

\* Faulty variant of AlreadyShuttingDown: the guard dropped.
AlreadyShuttingDownNever(flag) == FALSE

\* if (this.isShuttingDown) of shutdown
AlreadyShuttingDown(flag) == flag

\* Faulty variant of HasConsumer: the broker consumer is never
\* disconnected.
HasConsumerNever(c) == FALSE

\* if (this.consumer) of shutdown
HasConsumer(c) == c # "null"

\* if (this.notificationConsumer) of shutdown
HasNotificationConsumer(nc) == nc # "null"

\* if (this.transporter && this.transporter.close) of EmailService.close
HasTransporter(t) == t # "null"

\* Faulty variant of ShutdownCatches: the error is thrown again.
ShutdownRethrows(threw) == FALSE

\* catch (error) of shutdown: an error thrown in its try block is logged.
ShutdownCatches(threw) == TRUE

\* Faulty variant of InitializeThrows: a failed start of the mail
\* transport is not reported.
InitializeThrowsNever(step) == FALSE

\* EmailService.initialize throws when getMailTransporter throws
\* ("createFail") or verifyMailTransporter answers false ("verifyFail").
InitializeThrows(step) == step \in {"createFail", "verifyFail"}

\* NotificationService.shutdown up to its first await of a transport or
\* broker call: a call while a shutdown is in progress returns at once;
\* otherwise the flag is set, stop() clears isRunning and calls
\* transporter.close, and without a transporter the broker consumer's
\* disconnect is called right away.  Every caller calls process.exit
\* once shutdown has returned.
Shutdown ==
  /\ shutdownCalls' = shutdownCalls + 1
  /\ IF AlreadyShuttingDown(isShuttingDown)
     THEN /\ exited' = TRUE
          /\ UNCHANGED <<isShuttingDown, isRunning, closeCalls, disconnectCalls,
                         shutdown>>
     ELSE /\ isShuttingDown' = TRUE
          /\ isRunning' = IF HasNotificationConsumer(notificationConsumer)
                          THEN FALSE ELSE isRunning
          /\ IF HasNotificationConsumer(notificationConsumer) /\ HasTransporter(transporter)
             THEN /\ closeCalls' = closeCalls + 1
                  /\ shutdown' = ShutdownState("closing", FALSE, FALSE)
                  /\ UNCHANGED <<disconnectCalls, exited>>
             ELSE IF HasConsumer(consumer)
             THEN /\ disconnectCalls' = disconnectCalls + 1
                  /\ shutdown' = ShutdownState("disconnecting", FALSE, FALSE)
                  /\ UNCHANGED <<closeCalls, exited>>
             ELSE /\ shutdown' = ShutdownState("returned", FALSE, FALSE)
                  /\ exited' = TRUE
                  /\ UNCHANGED <<closeCalls, disconnectCalls>>

\* NotificationService.start up to connectConsumer: the environment is
\* validated, the broker client and consumer are created, the consumer
\* connects and subscribes.  `step` is where it throws, or "ok".
ServiceStart ==
  /\ Alive
  /\ service = "new"
  /\ \E step \in {"envFail", "clientFail", "connectFail", "subscribeFail", "ok"} :
       /\ consumer' = CASE step \in {"envFail", "clientFail"} -> "null"
                         [] step = "connectFail" -> "created"
                         [] step = "subscribeFail" -> "connected"
                         [] OTHER -> "subscribed"
       /\ service' = IF step = "ok" THEN "connected" ELSE "catch"
       /\ failedAt' = IF step = "ok" THEN "none" ELSE step
  /\ UNCHANGED <<notificationConsumer, handlersInstalled, isShuttingDown, shutdown,
                 shutdownCalls, closeCalls, disconnectCalls, verifyCalls, exited,
                 started, transporter, isInitialized, isRunning, registered,
                 handed, payload, handler, outcome, parseCalls, jsonParses,
                 validateCalls, sendCalls, responses, svc, timer, standaloneVars>>

\* Faulty variant of ConsumerStart: the service installs its signal
\* handlers whether or not the consumer's start succeeded.
ConsumerStartThenHandlers ==
  /\ Alive
  /\ service = "connected"
  /\ started = "no"
  /\ \E step \in {"createFail", "verifyFail", "runFail", "ok"} :
       /\ transporter' = IF step = "createFail" THEN "null" ELSE "open"
       /\ verifyCalls' = verifyCalls + IF step = "createFail" THEN 0 ELSE 1
       /\ isInitialized' = ~InitializeThrows(step)
       /\ isRunning' = ~InitializeThrows(step)
       /\ registered' = (~InitializeThrows(step) /\ step # "runFail")
       /\ started' = IF registered' THEN "ok" ELSE "failed"
       /\ handlersInstalled' = TRUE
       /\ service' = IF registered' THEN "started" ELSE "catch"
       /\ failedAt' = IF step = "ok" THEN "none" ELSE step
  /\ notificationConsumer' = "created"
  /\ UNCHANGED <<consumer, isShuttingDown, shutdown, shutdownCalls, closeCalls,
                 disconnectCalls, exited,
                 handed, payload, handler, outcome, parseCalls, jsonParses,
                 validateCalls, sendCalls, responses, svc, timer, standaloneVars>>

\* NotificationConsumer.start with EmailService.initialize: the transport
\* is created and verified, isRunning is set, consumer.run registers the
\* handler; after it the service installs its signal handlers.  `step`
\* is where it fails, or "ok".
ConsumerStart ==
  /\ Alive
  /\ service = "connected"
  /\ started = "no"
  /\ \E step \in {"createFail", "verifyFail", "runFail", "ok"} :
       /\ transporter' = IF step = "createFail" THEN "null" ELSE "open"
       /\ verifyCalls' = verifyCalls + IF step = "createFail" THEN 0 ELSE 1
       /\ isInitialized' = ~InitializeThrows(step)
       /\ isRunning' = ~InitializeThrows(step)
       /\ registered' = (~InitializeThrows(step) /\ step # "runFail")
       /\ started' = IF registered' THEN "ok" ELSE "failed"
       /\ handlersInstalled' = registered'
       /\ service' = IF registered' THEN "started" ELSE "catch"
       /\ failedAt' = IF step = "ok" THEN "none" ELSE step
  /\ notificationConsumer' = "created"
  /\ UNCHANGED <<consumer, isShuttingDown, shutdown, shutdownCalls, closeCalls,
                 disconnectCalls, exited,
                 handed, payload, handler, outcome, parseCalls, jsonParses,
                 validateCalls, sendCalls, responses, svc, timer, standaloneVars>>

\* The catch block of NotificationService.start: shutdown, then
\* process.exit(1).
StartCatch ==
  /\ Alive
  /\ service = "catch"
  /\ service' = "failed"
  /\ Shutdown
  /\ UNCHANGED <<failedAt, consumer, notificationConsumer, handlersInstalled,
                 verifyCalls, started, transporter, isInitialized, registered,
                 handed, payload, handler, outcome, parseCalls, jsonParses,
                 validateCalls, sendCalls, responses, svc, timer, standaloneVars>>

\* A handler installed by _setupGracefulShutdown runs (SIGTERM, SIGINT,
\* SIGUSR2, uncaughtException or unhandledRejection): shutdown, then
\* process.exit.
Signal ==
  /\ Alive
  /\ handlersInstalled
  /\ Shutdown
  /\ UNCHANGED <<service, failedAt, consumer, notificationConsumer,
                 handlersInstalled, verifyCalls, started, transporter,
                 isInitialized, registered,
                 handed, payload, handler, outcome, parseCalls, jsonParses,
                 validateCalls, sendCalls, responses, svc, timer, standaloneVars>>

\* transporter.close has returned or thrown (EmailService.close logs the
\* error): stop() returns and shutdown calls the consumer's disconnect.
CloseDone ==
  /\ Alive
  /\ shutdown.pc = "closing"
  /\ \E threw \in BOOLEAN :
       /\ transporter' = IF threw THEN transporter ELSE "closed"
       /\ IF HasConsumer(consumer)
          THEN /\ disconnectCalls' = disconnectCalls + 1
               /\ shutdown' = ShutdownState("disconnecting", threw, FALSE)
               /\ UNCHANGED exited
          ELSE /\ shutdown' = ShutdownState("returned", threw, FALSE)
               /\ exited' = TRUE
               /\ UNCHANGED disconnectCalls
  /\ UNCHANGED <<service, failedAt, consumer, notificationConsumer,
                 handlersInstalled, isShuttingDown, shutdownCalls, closeCalls,
                 verifyCalls, started, isInitialized, isRunning, registered,
                 handed, payload, handler, outcome, parseCalls, jsonParses,
                 validateCalls, sendCalls, responses, svc, timer, standaloneVars>>

\* consumer.disconnect has returned or thrown (disconnectConsumer throws
\* the error again, the catch of shutdown logs it): shutdown returns and
\* its caller calls process.exit.
DisconnectDone ==
  /\ Alive
  /\ shutdown.pc = "disconnecting"
  /\ \E threw \in BOOLEAN :
       /\ consumer' = IF threw THEN consumer ELSE "disconnected"
       /\ IF threw /\ ~ShutdownCatches(threw)
          THEN /\ shutdown' = ShutdownState("threw", shutdown.closeThrew, threw)
               /\ UNCHANGED exited
          ELSE /\ shutdown' = ShutdownState("returned", shutdown.closeThrew, threw)
               /\ exited' = TRUE
  /\ UNCHANGED <<service, failedAt, notificationConsumer, handlersInstalled,
                 isShuttingDown, shutdownCalls, closeCalls, disconnectCalls,
                 verifyCalls, started, transporter, isInitialized, isRunning,
                 registered,
                 handed, payload, handler, outcome, parseCalls, jsonParses,
                 validateCalls, sendCalls, responses, svc, timer, standaloneVars>>

\* NotificationService.getHealthStatus: the isConsumerRunning property,
\* this.notificationConsumer?.isConsumerRunning() || false.
getHealthStatus ==
  [isConsumerRunning |-> HasNotificationConsumer(notificationConsumer) /\ isRunning]

\* ------------------------------------------------------------ pipeline
\* Faulty variant of ClearTimeout: the timer is left as it is.
ClearTimeoutLeavesArmed(t) == t

\* clearTimeout(timeoutId): no effect on a timer that has fired.
ClearTimeout(t) == IF t.st = "armed" THEN Timer("cleared", 0) ELSE t

\* How the handler of a record ends once its try block has thrown e or
\* has run to its end (e = NoError).
HandlerEnd(e) == IF e = NoError \/ Caught(e) THEN "returned" ELSE "threw"

\* Faulty variant of ArmTimer: no timer is set.
ArmTimerNever == NoTimer

\* setTimeout(..., this.messageProcessingTimeout) of _sendEmailWithTimeout
ArmTimer == Timer("armed", messageProcessingTimeout)

\* NotificationConsumer._processMessage up to its first suspension:
\* parse, validate, then _sendEmailWithTimeout arms the timer and
\* sendEmail checks its parameters and makes the first backend call.
ProcessMessage(i, value) ==
  LET parsed == _parseMessage(value)
      valErr == IF parsed.err = NoError THEN _validateMessage(parsed.data) ELSE NoError
      preErr == IF parsed.err # NoError THEN parsed.err ELSE valErr
      svcErr == IF ~isInitialized
                THEN Err("NotInitialized", "", 0)
                ELSE _validateEmailParams(Prop(parsed.data, "to"),
                                          Prop(parsed.data, "subject"),
                                          Prop(parsed.data, "message"))
  IN
  /\ handed' = i
  /\ payload' = [payload EXCEPT ![i] = value]
  /\ parseCalls' = [parseCalls EXCEPT ![i] = @ + 1]
  /\ jsonParses' = [jsonParses EXCEPT ![i] = @ + parsed.parses]
  /\ validateCalls' = [validateCalls EXCEPT ![i] = @ + IF parsed.err = NoError THEN 1 ELSE 0]
  /\ IF preErr # NoError
     THEN /\ outcome' = [outcome EXCEPT ![i] =
                IF Caught(preErr) THEN Outcome("Rejected", preErr, NoResult) ELSE @]
          /\ handler' = [handler EXCEPT ![i] = HandlerEnd(preErr)]
          /\ UNCHANGED <<svc, timer, sendCalls>>
     ELSE IF svcErr # NoError
     THEN /\ outcome' = [outcome EXCEPT ![i] =
                IF Caught(svcErr) THEN Outcome("Failed", svcErr, NoResult) ELSE @]
          /\ handler' = [handler EXCEPT ![i] = HandlerEnd(svcErr)]
          /\ svc' = [svc EXCEPT ![i] = Svc("threw", 0, 0, NoResult, svcErr, 0)]
          /\ timer' = [timer EXCEPT ![i] = Timer("cleared", 0)]
          /\ UNCHANGED sendCalls
     ELSE /\ timer' = [timer EXCEPT ![i] = ArmTimer]
          /\ svc' = [svc EXCEPT ![i] = Svc("inflight", 1, 0, NoResult, NoError, 0)]
          /\ sendCalls' = [sendCalls EXCEPT ![i] = @ + 1]
          /\ handler' = [handler EXCEPT ![i] = "awaiting"]
          /\ UNCHANGED outcome
  /\ UNCHANGED <<responses, lifecycleVars, standaloneVars>>

\* The broker client fetches records: the process runs, the consumer is
\* subscribed and its disconnect has not been called.
Consuming == Alive /\ consumer = "subscribed" /\ shutdown.pc # "disconnecting"

\* Faulty variant of HandlerReturned: eachMessage does not await
\* _processMessage.
HandlerReturnedEarly(h) == h # "idle"

\* The promise eachMessage returns has resolved: it awaits
\* _processMessage.
HandlerReturned(h) == h = "returned"

\* Faulty variant of HandOver: the transport is verified again for
\* every record, which is not processed.
HandOverVerifies ==
  /\ registered
  /\ Consuming
  /\ handed < MaxRecords
  /\ handed' = handed + 1
  /\ verifyCalls' = verifyCalls + 1
  /\ UNCHANGED <<service, failedAt, consumer, notificationConsumer,
                 handlersInstalled, isShuttingDown, shutdown, shutdownCalls,
                 closeCalls, disconnectCalls, exited, started, transporter,
                 isInitialized, isRunning, registered, payload, handler,
                 outcome, parseCalls, jsonParses, validateCalls, sendCalls,
                 responses, svc, timer, standaloneVars>>

\* Faulty variant of HandOver: a record whose partition and offset were
\* seen before is not processed.
HandOverOncePerIdentity ==
  /\ registered
  /\ Consuming
  /\ handed < MaxRecords
  /\ handed > 0 => HandlerReturned(handler[handed])
  /\ IF \E j \in 1..handed : identity[j] = identity[handed + 1]
     THEN /\ handed' = handed + 1
          /\ handler' = [handler EXCEPT ![handed + 1] = "returned"]
          /\ UNCHANGED <<payload, outcome, parseCalls, jsonParses, validateCalls,
                         sendCalls, responses, svc, timer, lifecycleVars,
                         standaloneVars>>
     ELSE \E value \in Payloads : ProcessMessage(handed + 1, value)

\* eachMessage: the broker client hands over the next record once the
\* handler of the one before has returned.
HandOver ==
  /\ registered
  /\ Consuming
  /\ handed < MaxRecords
  /\ handed > 0 => HandlerReturned(handler[handed])
  /\ \E value \in Payloads : ProcessMessage(handed + 1, value)

\* The handler of record i after the promise of _sendEmailWithTimeout has
\* settled with o: it resumes only if it was still awaiting.
HandlerAfter(i, e) == IF handler[i] = "awaiting" THEN HandlerEnd(e) ELSE handler[i]

\* The sendMail callback reports success for the call in flight of record
\* i: sendEmail returns, _sendEmailWithTimeout clears the timer and
\* resolves, _processMessage logs the success.
BackendSuccess(i) ==
  /\ Alive
  /\ svc[i].pc = "inflight"
  /\ \E messageId \in DeliveryIds :
       LET result == SendSuccessResult(messageId, svc[i].attempt) IN
       /\ responses' = [responses EXCEPT ![i] = Append(@, Response(TRUE, messageId, NoError))]
       /\ svc' = [svc EXCEPT ![i] = Svc("returned", @.attempt, 0, result, NoError, 0)]
       /\ timer' = [timer EXCEPT ![i] = ClearTimeout(@)]
       /\ outcome' = [outcome EXCEPT ![i] = Settle(@, Outcome("Delivered", NoError, result))]
       /\ handler' = [handler EXCEPT ![i] = HandlerAfter(i, NoError)]
  /\ UNCHANGED <<handed, payload, parseCalls, jsonParses, validateCalls, sendCalls,
                 lifecycleVars, standaloneVars>>

\* The sendMail callback reports an error for the call in flight of
\* record i: on the last attempt sendEmail throws it (and the wrapper
\* clears the timer and rejects), otherwise the retry delay starts.
BackendError(i) ==
  /\ Alive
  /\ svc[i].pc = "inflight"
  /\ LET error == Err("Delivery", "", sendCalls[i])
         attempt == svc[i].attempt
     IN
     /\ responses' = [responses EXCEPT ![i] = Append(@, Response(FALSE, "", error))]
     /\ IF ~RetriesAfter(attempt, error)
        THEN /\ svc' = [svc EXCEPT ![i] = Svc("threw", attempt, 0, NoResult, error, retryAttempts)]
             /\ timer' = [timer EXCEPT ![i] = ClearTimeout(@)]
             /\ outcome' = [outcome EXCEPT ![i] = Settle(@, Outcome("Failed", error, NoResult))]
             /\ handler' = [handler EXCEPT ![i] = HandlerAfter(i, error)]
        ELSE /\ svc' = [svc EXCEPT ![i] = Svc("delay", attempt, RetryDelayFor(attempt), NoResult, NoError, 0)]
             /\ UNCHANGED <<timer, outcome, handler>>
  /\ UNCHANGED <<handed, payload, parseCalls, jsonParses, validateCalls, sendCalls,
                 lifecycleVars, standaloneVars>>

\* Faulty variant of DelayElapsed: every attempt after the first sets the
\* record's timer anew.
DelayElapsedRearms(i) ==
  /\ Alive
  /\ svc[i].pc = "delay"
  /\ svc[i].delayLeft = 0
  /\ svc' = [svc EXCEPT ![i] = Svc("inflight", @.attempt + 1, 0, NoResult, NoError, 0)]
  /\ sendCalls' = [sendCalls EXCEPT ![i] = @ + 1]
  /\ timer' = [timer EXCEPT ![i] = IF @.st = "armed" THEN ArmTimer ELSE @]
  /\ UNCHANGED <<handed, payload, handler, outcome, parseCalls, jsonParses,
                 validateCalls, responses, lifecycleVars, standaloneVars>>

\* The retry delay of record i is over: the for loop makes its next
\* attempt and calls the backend again.
DelayElapsed(i) ==
  /\ Alive
  /\ svc[i].pc = "delay"
  /\ svc[i].delayLeft = 0
  /\ svc' = [svc EXCEPT ![i] = Svc("inflight", @.attempt + 1, 0, NoResult, NoError, 0)]
  /\ sendCalls' = [sendCalls EXCEPT ![i] = @ + 1]
  /\ UNCHANGED <<handed, payload, handler, outcome, parseCalls, jsonParses,
                 validateCalls, responses, timer, lifecycleVars, standaloneVars>>

\* Faulty variant of TimerFire: the timeout counts as a failed attempt
\* and sendEmail makes its next backend call, the one before it still
\* unanswered.
TimerFireRetries(i) ==
  /\ Alive
  /\ timer[i].st = "armed"
  /\ timer[i].left = 0
  /\ svc[i].pc = "inflight"
  /\ svc' = [svc EXCEPT ![i] = Svc("inflight", @.attempt + 1, 0, NoResult, NoError, 0)]
  /\ sendCalls' = [sendCalls EXCEPT ![i] = @ + 1]
  /\ timer' = [timer EXCEPT ![i] = Timer("fired", 0)]
  /\ UNCHANGED <<handed, payload, handler, outcome, parseCalls, jsonParses,
                 validateCalls, responses, lifecycleVars, standaloneVars>>

\* The timer of _sendEmailWithTimeout fires for record i: the promise is
\* rejected and _processMessage logs the failure; sendEmail is not told.
TimerFire(i) ==
  /\ Alive
  /\ timer[i].st = "armed"
  /\ timer[i].left = 0
  /\ LET error == Err("Timeout", "", 0) IN
     /\ timer' = [timer EXCEPT ![i] = Timer("fired", 0)]
     /\ outcome' = [outcome EXCEPT ![i] = Settle(@, Outcome("Failed", error, NoResult))]
     /\ handler' = [handler EXCEPT ![i] = HandlerAfter(i, error)]
  /\ UNCHANGED <<handed, payload, parseCalls, jsonParses, validateCalls, sendCalls,
                 responses, svc, lifecycleVars, standaloneVars>>

\* ---------------------------------------------------------------- time
\* The time left on every pending setTimeout.
Pending_ms ==
  {timer[i].left : i \in {r \in Records : timer[r].st = "armed"}}
    \cup {svc[i].delayLeft : i \in {r \in Records : svc[r].pc = "delay"}}

Min(S) == CHOOSE x \in S : \A y \in S : x <= y

\* Time passes up to the next pending timer; a backend call may answer
\* at any instant reached, so a call lasts any number of such steps.
Advance ==
  /\ Alive
  /\ Pending_ms # {}
  /\ \A x \in Pending_ms : x > 0
  /\ LET d == Min(Pending_ms) IN
     /\ timer' = [i \in Records |->
          IF timer[i].st = "armed" THEN Timer("armed", timer[i].left - d) ELSE timer[i]]
     /\ svc' = [i \in Records |->
          IF svc[i].pc = "delay"
          THEN [svc[i] EXCEPT !.delayLeft = @ - d]
          ELSE svc[i]]
  /\ UNCHANGED <<handed, payload, handler, outcome, parseCalls, jsonParses,
                 validateCalls, sendCalls, responses, lifecycleVars, standaloneVars>>

Next ==
  \/ ServiceStart
  \/ ConsumerStart
  \/ StartCatch
  \/ Signal
  \/ CloseDone
  \/ DisconnectDone
  \/ HandOver
  \/ \E i \in Records : BackendSuccess(i)
  \/ \E i \in Records : BackendError(i)
  \/ \E i \in Records : DelayElapsed(i)
  \/ \E i \in Records : TimerFire(i)
  \/ Advance

Spec == Init /\ [][Next]_vars

\* The calls shutdown awaits, transporter.close and consumer.disconnect,
\* each return or throw in the end.
Fairness == WF_vars(CloseDone) /\ WF_vars(DisconnectDone)

SpecFair == Spec /\ Fairness

\* A step of the timers: time passes, or a setTimeout callback that is
\* due runs (the timer of _sendEmailWithTimeout, the timer of _delay).
TimerStep ==
  \/ Advance
  \/ \E i \in Records : TimerFire(i)
  \/ \E i \in Records : DelayElapsed(i)

\* While the process runs the timers go on: time passes and callbacks
\* that are due run. Nothing is assumed of the backend.
TimerFairness == WF_vars(TimerStep)

SpecTimers == Spec /\ TimerFairness

\* ------------------------------------------- the validator's input space
\* Every string over alphabet of length at most n.
Strings(alphabet, n) == UNION {[1..k -> alphabet] : k \in 0..n}

\* The values JSON.parse can give a property that are not strings, and
\* undefined for a property that is absent.
NonStrings ==
  {JsUndefined, JsNull, JsBool(FALSE), JsBool(TRUE), JsNum(0), JsNum(5),
   JsObject, JsArray}

ToValues == NonStrings \cup {JsStr(s) : s \in Strings({"a", "@", ".", " "}, MaxToLen)}
\* subject and message: empty, whitespace only, and non-empty with and
\* without whitespace around it.
TextValues == NonStrings \cup {JsStr(<<>>), JsStr(<<" ">>), JsStr(a1), JsStr(<<" ", "a">>)}
ExtraValues == {JsUndefined, JsStr(a1)}

\* The values JSON.parse may return that are not objects.
NonObjects ==
  {Decoded(tag, NoProps) : tag \in {"null", "string", "number", "boolean", "array"}}

InitValidate ==
  /\ Constructed
  /\ handed = 0
  /\ payload = [i \in Records |-> NoPayload]
  /\ handler = [i \in Records |-> "idle"]
  /\ outcome = [i \in Records |-> NoOutcome]
  /\ parseCalls = [i \in Records |-> 0]
  /\ jsonParses = [i \in Records |-> 0]
  /\ validateCalls = [i \in Records |-> 0]
  /\ sendCalls = [i \in Records |-> 0]
  /\ responses = [i \in Records |-> <<>>]
  /\ svc = [i \in Records |-> SvcIdle]
  /\ timer = [i \in Records |-> NoTimer]
  /\ \/ decoded \in NonObjects
     \/ \E to \in ToValues, subject \in TextValues, message \in TextValues,
           extraField \in ExtraValues :
          decoded = Obj(to, subject, message, extraField)
  /\ verdict = Pending
  /\ verdictAgain = Pending
  /\ body = <<>>
  /\ run = [r \in Runs |-> RunIdle]
  /\ identity = InOrder

\* Faulty variant of Validate: the string properties of the object are
\* trimmed in place.
ValidateNormalises ==
  /\ verdict = Pending
  /\ verdict' = _validateMessage(decoded)
  /\ decoded' =
       IF decoded.t = "object"
       THEN Decoded("object",
              [k \in Keys |->
                 IF decoded.f[k].t = "string"
                 THEN JsStr(trim(decoded.f[k].s))
                 ELSE decoded.f[k]])
       ELSE decoded
  /\ UNCHANGED <<verdictAgain, senderVars, pipelineVars, lifecycleVars, identity>>

\* _validateMessage applied to the decoded object.
Validate ==
  /\ verdict = Pending
  /\ verdict' = _validateMessage(decoded)
  /\ UNCHANGED <<decoded, lifecycleVars, handed, payload, handler, outcome,
                 parseCalls, jsonParses, validateCalls, sendCalls, responses,
                 svc, timer, verdictAgain, senderVars, identity>>

NextValidate == Validate

SpecValidate == InitValidate /\ [][NextValidate]_vars

\* ------------------------------------------------- sendEmail on its own
\* EmailService.sendEmail called on an initialized service, as the
\* consumer calls it, without the consumer's timer around it.

\* The state after EmailService.initialize has returned.
EmailServiceReady ==
  /\ service = "new"
  /\ failedAt = "none"
  /\ consumer = "null"
  /\ notificationConsumer = "null"
  /\ handlersInstalled = FALSE
  /\ isShuttingDown = FALSE
  /\ shutdown = NoShutdown
  /\ shutdownCalls = 0
  /\ closeCalls = 0
  /\ disconnectCalls = 0
  /\ verifyCalls = 1
  /\ exited = FALSE
  /\ started = "no"
  /\ transporter = "open"
  /\ isInitialized = TRUE
  /\ isRunning = FALSE
  /\ registered = FALSE

\* No record has been handed over.
PipelineIdle ==
  /\ handed = 0
  /\ payload = [i \in Records |-> NoPayload]
  /\ handler = [i \in Records |-> "idle"]
  /\ outcome = [i \in Records |-> NoOutcome]
  /\ parseCalls = [i \in Records |-> 0]
  /\ jsonParses = [i \in Records |-> 0]
  /\ validateCalls = [i \in Records |-> 0]
  /\ sendCalls = [i \in Records |-> 0]
  /\ responses = [i \in Records |-> <<>>]
  /\ svc = [i \in Records |-> SvcIdle]
  /\ timer = [i \in Records |-> NoTimer]

\* _validateMessage has not been called on its own.
ValidatorIdle ==
  /\ decoded = NoData
  /\ verdict = Pending
  /\ verdictAgain = Pending

\* Faulty variant of SendEmail: the isInitialized check left out.
SendEmailUnguarded(r) ==
  /\ run[r].pc = "idle"
  /\ LET error == _validateEmailParams(JsStr(addr), JsStr(a1), JsStr(body))
         emailData == BuildEmailData(body)
     IN run' = [run EXCEPT ![r] =
          IF error # NoError
          THEN Run("threw", 0, NoEmailData, <<>>, <<>>, <<>>, error)
          ELSE Run("inflight", 1, emailData, <<>>, <<>>, <<emailData>>, NoError)]
  /\ UNCHANGED <<body, validatorVars, pipelineVars, lifecycleVars, identity>>

\* sendEmail up to its first suspension: the checks, the emailData object
\* and the first call of transporter.sendMail.
SendEmail(r) ==
  /\ run[r].pc = "idle"
  /\ LET error == IF ~isInitialized
                  THEN Err("NotInitialized", "", 0)
                  ELSE _validateEmailParams(JsStr(addr), JsStr(a1), JsStr(body))
         emailData == BuildEmailData(body)
     IN run' = [run EXCEPT ![r] =
          IF error # NoError
          THEN Run("threw", 0, NoEmailData, <<>>, <<>>, <<>>, error)
          ELSE Run("inflight", 1, emailData, <<>>, <<>>, <<emailData>>, NoError)]
  /\ UNCHANGED <<body, validatorVars, pipelineVars, lifecycleVars, identity>>

\* The sendMail callback reports success: sendEmail returns.
SendMailOk(r) ==
  /\ run[r].pc = "inflight"
  /\ run' = [run EXCEPT ![r] =
       [@ EXCEPT !.pc = "returned", !.answers = Append(@, "ok")]]
  /\ UNCHANGED <<body, validatorVars, pipelineVars, lifecycleVars, identity>>

\* The sendMail callback reports an error of the given kind: sendEmail
\* throws it or starts the retry delay.
SendMailError(r, kind) ==
  /\ run[r].pc = "inflight"
  /\ LET attempt == run[r].attempt
         error == Err(kind, "", attempt)
     IN run' = [run EXCEPT ![r] =
          IF RetriesAfter(attempt, error)
          THEN [@ EXCEPT !.pc = "delay",
                         !.answers = Append(@, kind),
                         !.delays = Append(@, RetryDelayFor(attempt))]
          ELSE [@ EXCEPT !.pc = "threw",
                         !.answers = Append(@, kind),
                         !.err = error]]
  /\ UNCHANGED <<body, validatorVars, pipelineVars, lifecycleVars, identity>>

\* The retry delay is over: the next attempt gives the same emailData
\* object to transporter.sendMail.
DelayOver(r) ==
  /\ run[r].pc = "delay"
  /\ run' = [run EXCEPT ![r] =
       [@ EXCEPT !.pc = "inflight",
                 !.attempt = @ + 1,
                 !.sent = Append(@, run[r].emailData)]]
  /\ UNCHANGED <<body, validatorVars, pipelineVars, lifecycleVars, identity>>

\* Two calls with the same arguments, whose backends answer as they like.
InitRetry ==
  /\ EmailServiceReady
  /\ PipelineIdle
  /\ ValidatorIdle
  /\ body = a1
  /\ run = [r \in Runs |-> RunIdle]
  /\ identity = InOrder

NextRetry ==
  \E r \in Runs :
    \/ SendEmail(r)
    \/ SendMailOk(r)
    \/ \E kind \in ErrorKinds : SendMailError(r, kind)
    \/ DelayOver(r)

SpecRetry == InitRetry /\ [][NextRetry]_vars

\* One call for every message body over the characters the three
\* patterns tell apart.
Bodies == Strings({"<", ">", "a", " ", "\n"}, MaxBodyLen)

InitContent ==
  /\ EmailServiceReady
  /\ PipelineIdle
  /\ ValidatorIdle
  /\ body \in Bodies
  /\ run = [r \in Runs |-> RunIdle]
  /\ identity = InOrder

NextContent ==
  \/ SendEmail(1)
  \/ SendMailOk(1)
  \/ \E kind \in ErrorKinds : SendMailError(1, kind)
  \/ DelayOver(1)

SpecContent == InitContent /\ [][NextContent]_vars

\* The service starts, up to the point where it is started or its start
\* has failed, and sendEmail is called on its email service at any
\* moment, before, after or without a successful initialize.
InitSend ==
  /\ Constructed
  /\ PipelineIdle
  /\ ValidatorIdle
  /\ body = a1
  /\ run = [r \in Runs |-> RunIdle]
  /\ identity = InOrder

NextSend ==
  \/ ServiceStart
  \/ ConsumerStart
  \/ NextRetry

SpecSend == InitSend /\ [][NextSend]_vars

\* ------------------------------------ one record, any decoded object
\* A started service is handed one record whose value decodes to any
\* object of the validator's input space.

\* The state after NotificationService.start has returned.
ServiceStarted ==
  /\ service = "started"
  /\ failedAt = "none"
  /\ consumer = "subscribed"
  /\ notificationConsumer = "created"
  /\ handlersInstalled = TRUE
  /\ isShuttingDown = FALSE
  /\ shutdown = NoShutdown
  /\ shutdownCalls = 0
  /\ closeCalls = 0
  /\ disconnectCalls = 0
  /\ verifyCalls = 1
  /\ exited = FALSE
  /\ started = "ok"
  /\ transporter = "open"
  /\ isInitialized = TRUE
  /\ isRunning = TRUE
  /\ registered = TRUE

\* subject and message: a string the checks accept, one they refuse and
\* a value that is not a string.
TextSamples == {JsStr(a1), JsStr(<<" ">>), JsNum(5)}

InitDispatch ==
  /\ ServiceStarted
  /\ PipelineIdle
  /\ body = <<>>
  /\ run = [r \in Runs |-> RunIdle]
  /\ identity = InOrder
  /\ \/ decoded \in NonObjects
     \/ \E to \in ToValues, subject \in TextSamples, text \in TextSamples :
          decoded = Obj(to, subject, text, JsUndefined)
  /\ verdict = Pending
  /\ verdictAgain = Pending

\* eachMessage with a value that JSON.parse turns into the decoded
\* object.
HandOverDecoded ==
  /\ registered
  /\ Consuming
  /\ handed = 0
  /\ ProcessMessage(1, Payload("json", decoded))

NextDispatch == HandOverDecoded

SpecDispatch == InitDispatch /\ [][NextDispatch]_vars

\* ------------------------------------- records of any partition/offset
\* A started service is handed records whose partitions and offsets the
\* broker chooses, the same one twice included.
Identities == {Identity(0, 0), Identity(1, 0)}

InitRecords ==
  /\ ServiceStarted
  /\ PipelineIdle
  /\ ValidatorIdle
  /\ body = <<>>
  /\ run = [r \in Runs |-> RunIdle]
  /\ identity \in [Records -> Identities]

NextRecords ==
  \/ HandOver
  \/ \E i \in Records : BackendSuccess(i)
  \/ \E i \in Records : BackendError(i)
  \/ \E i \in Records : DelayElapsed(i)
  \/ \E i \in Records : TimerFire(i)
  \/ Advance

SpecRecords == InitRecords /\ [][NextRecords]_vars

\* ---------------------------------------------- _validateMessage twice
\* _validateMessage called twice on the same decoded object.

\* The `to` values the checks of _validateMessage tell apart.
ToSamples ==
  NonStrings \cup
    {JsStr(<<>>), JsStr(<<" ">>), JsStr(a1), JsStr(addr), JsStr(<<" ">> \o addr)}

InitValidateTwice ==
  /\ Constructed
  /\ PipelineIdle
  /\ body = <<>>
  /\ run = [r \in Runs |-> RunIdle]
  /\ identity = InOrder
  /\ \/ decoded \in NonObjects
     \/ \E to \in ToSamples, subject \in TextValues, text \in TextValues,
           extraField \in ExtraValues :
          decoded = Obj(to, subject, text, extraField)
  /\ verdict = Pending
  /\ verdictAgain = Pending

\* The second call, on the object the first call was given.
ValidateAgain ==
  /\ verdict # Pending
  /\ verdictAgain = Pending
  /\ verdictAgain' = _validateMessage(decoded)
  /\ UNCHANGED <<decoded, verdict, senderVars, pipelineVars, lifecycleVars, identity>>

NextValidateTwice == Validate \/ ValidateAgain

SpecValidateTwice == InitValidateTwice /\ [][NextValidateTwice]_vars

\* ============================================================ properties
\* The contract the properties below compare the code with, stated
\* without the code's helpers.

\* A string with at least one character that is not whitespace.
NonEmptyString(v) == v.t = "string" /\ \E k \in 1..Len(v.s) : v.s[k] # " "

\* local@domain.tld: three non-empty parts free of whitespace and "@".
PlainPart(part) == part # <<>> /\ \A k \in 1..Len(part) : part[k] \notin {" ", "@"}
AddressShape(s) ==
  \E i \in 1..Len(s), j \in 1..Len(s) :
    /\ i < j /\ s[i] = "@" /\ s[j] = "."
    /\ PlainPart(SubSeq(s, 1, i - 1))
    /\ PlainPart(SubSeq(s, i + 1, j - 1))
    /\ PlainPart(SubSeq(s, j + 1, Len(s)))

AcceptedByContract(data) ==
  /\ \A k \in 1..3 : NonEmptyString(data.f[requiredFields[k]])
  /\ AddressShape(data.f["to"].s)

\* The decoded object with its unknown field added, or removed.
ToggleExtra(data) ==
  [data EXCEPT !.f["extraField"] = IF @ = JsUndefined THEN JsStr(a1) ELSE JsUndefined]

Undecodable(value) == value.kind \in {"null", "empty", "malformed"}
TimeoutError == Err("Timeout", "", 0)

\* C1: for every record and every backend behaviour (errors, successes,
\* calls that never return, timeout firings) the backend send operation
\* is invoked at most 3 times.
DispatchAtMostThree == \A i \in Records : sendCalls[i] <= 3

\* A record whose timer fired and whose retry loop still made all its
\* attempts.
DispatchAtMostThreeWitness ==
  \E i \in Records :
    sendCalls[i] = 3 /\ timer[i].st = "fired" /\ svc[i].pc = "threw"

\* C2: when attempts 1..k-1 fail and attempt k succeeds, sendEmail
\* returns success with the messageId of attempt k and attempt = k, the
\* backend has been called exactly k times and is not called again, and a
\* Delivered outcome logged by the consumer carries that same result.
DeliveredOnAttemptK ==
  \A i \in Records :
    /\ svc[i].pc = "returned" =>
         LET k == Len(responses[i]) IN
         /\ k \in 1..3
         /\ responses[i][k].ok
         /\ \A j \in 1..(k - 1) : ~responses[i][j].ok
         /\ svc[i].result = Result(TRUE, responses[i][k].messageId, k)
         /\ sendCalls[i] = k
    /\ (Len(responses[i]) > 0 /\ responses[i][Len(responses[i])].ok) =>
         svc[i].pc = "returned"
    /\ outcome[i].kind = "Delivered" =>
         svc[i].pc = "returned" /\ outcome[i].result = svc[i].result

\* Success on the second attempt, logged as Delivered.
DeliveredOnAttemptKWitness ==
  \E i \in Records :
    /\ svc[i].pc = "returned" /\ svc[i].result.attempt = 2
    /\ outcome[i].kind = "Delivered"

\* C3: the retry loop ends with a thrown backend error exactly when the
\* backend has answered 3 attempts with an error; it then throws the
\* error of the 3rd attempt, logs totalAttempts = 3, calls the backend no
\* more, and the consumer's outcome is Failed (with that error unless the
\* timer had fired before).
FailedAfterThree ==
  \A i \in Records :
    /\ (Len(responses[i]) = 3 /\ \A j \in 1..3 : ~responses[i][j].ok) =>
         /\ svc[i].pc = "threw"
         /\ svc[i].err = responses[i][3].err
         /\ svc[i].totalAttempts = 3
         /\ sendCalls[i] = 3
         /\ outcome[i].kind = "Failed"
         /\ timer[i].st # "fired" => outcome[i].err = responses[i][3].err
    /\ (svc[i].pc = "threw" /\ svc[i].err.type = "Delivery") =>
         Len(responses[i]) = 3 /\ \A j \in 1..3 : ~responses[i][j].ok

\* Three backend errors before the deadline.
FailedAfterThreeWitness ==
  \E i \in Records :
    /\ svc[i].pc = "threw" /\ timer[i].st = "cleared"
    /\ outcome[i].kind = "Failed" /\ outcome[i].err.call = 3

\* C4 as stated: every attempt has a timeout of its own, a timed-out
\* attempt is one failed attempt and the next one still proceeds, so a
\* dispatch is never Failed before 3 attempts have been made.
TimeoutPerAttempt ==
  \A i \in Records : outcome[i].kind = "Failed" => sendCalls[i] = 3

\* C4 as amended: one timer per record, armed when dispatch starts with
\* the first backend call and never re-armed for a later attempt; when
\* it fires the consumer's outcome is Failed with the timeout error
\* whatever the number of attempts made, and the firing neither counts
\* as a failed attempt nor starts the next one (the retry loop is left
\* as it is).
TimeoutPerRecord ==
  [][\A i \in Records :
       /\ timer'[i].st = "fired" => outcome'[i] = Outcome("Failed", TimeoutError, NoResult)
       /\ (timer'[i].st = "armed" /\ timer[i].st # "armed") =>
            /\ sendCalls[i] = 0 /\ sendCalls'[i] = 1
            /\ timer'[i].left = 30000
       /\ (sendCalls'[i] > sendCalls[i] /\ sendCalls[i] > 0) => timer'[i] = timer[i]
       /\ (timer[i].st = "armed" /\ timer'[i].st = "fired") =>
            svc'[i] = svc[i] /\ sendCalls'[i] = sendCalls[i]]_vars

\* The timer fired during the first attempt and the consumer logged the
\* failure while that attempt is still in flight.
TimeoutPerRecordWitness ==
  \E i \in Records :
    /\ timer[i].st = "fired" /\ svc[i].pc = "inflight" /\ sendCalls[i] = 1
    /\ outcome[i].kind = "Failed"

\* C5: no error of a record escapes its handler: the handler never ends
\* by throwing, an outcome is logged exactly when it has returned, and
\* once it has returned the next record can be handed over (as long as
\* the broker client still fetches records).
ErrorsNeverEscape ==
  /\ \A i \in Records :
       /\ handler[i] # "threw"
       /\ (outcome[i].kind # "None") <=> (handler[i] = "returned")
  /\ (0 < handed /\ handed < MaxRecords /\ outcome[handed].kind # "None"
        /\ Consuming) =>
       ENABLED HandOver

\* A record rejected for a TypeError raised while validating, handled
\* after a record whose delivery failed.
ErrorsNeverEscapeWitness ==
  /\ handed = 2
  /\ outcome[1].kind = "Failed"
  /\ outcome[2].kind = "Rejected" /\ outcome[2].err.type = "TypeError"

\* C6: a record whose decoded payload the contract rejects (a field
\* missing, not a string or empty, or `to` not shaped local@domain.tld)
\* is never dispatched: sendEmail is not entered, no timer is armed and
\* the backend is called zero times.
ValidateNoDispatch ==
  \A i \in Records :
    (payload[i].kind = "json" /\ ~AcceptedByContract(payload[i].data)) =>
      /\ sendCalls[i] = 0
      /\ svc[i] = SvcIdle
      /\ timer[i] = NoTimer
      /\ outcome[i].kind = "Rejected"

\* A record rejected for its address, after one rejected for an empty
\* message.
ValidateNoDispatchWitness ==
  /\ handed = 2
  /\ outcome[1].err = Err("EmptyField", "message", 0)
  /\ outcome[2].err = Err("InvalidAddressFormat", "to", 0)

\* C7: a record whose payload cannot be decoded is parsed once, never
\* validated, never dispatched, logged as rejected, and the next record
\* can be handed over (as long as the broker client still fetches
\* records).
DecodeFailureSkipsRecord ==
  /\ \A i \in Records :
       Undecodable(payload[i]) =>
         /\ parseCalls[i] = 1 /\ jsonParses[i] <= 1
         /\ validateCalls[i] = 0
         /\ sendCalls[i] = 0 /\ svc[i] = SvcIdle
         /\ outcome[i] = Outcome("Rejected", Err("Decode", "", 0), NoResult)
         /\ handler[i] = "returned"
  /\ (0 < handed /\ handed < MaxRecords /\ Undecodable(payload[handed])
        /\ Consuming) =>
       ENABLED HandOver

\* A record handled after one that was not well-formed JSON.
DecodeFailureSkipsRecordWitness ==
  /\ handed = 2
  /\ payload[1].kind = "malformed"
  /\ payload[2].kind = "null"

MissingFieldNamesAbsent ==
  (/\ verdict # Pending
   /\ decoded.t = "object"
   /\ \E k \in 1..3 : decoded.f[requiredFields[k]] = JsUndefined) =>
    /\ verdict.type = "MissingField"
    /\ decoded.f[verdict.field] = JsUndefined

\* C10: a required field that is present with a value that is not a
\* string (the other two fields being valid) is rejected with a
\* type-mismatch error for that field, never with a missing-field error.
NonStringIsTypeMismatch ==
  \A k \in 1..3 :
    LET field == requiredFields[k]
        others == [decoded EXCEPT !.f[field] = IF field = "to" THEN JsStr(addr) ELSE JsStr(a1)]
    IN (/\ verdict # Pending
        /\ decoded.t = "object"
        /\ decoded.f[field].t \notin {"undefined", "string"}
        /\ AcceptedByContract(others)) =>
         verdict = Err("WrongType", field, 0)

\* C11: a required field that is present as a string of length zero after
\* trimming ("" as well as whitespace only), the other two fields being
\* valid, is rejected with an empty-field error naming that field, not
\* with a missing-field error.
EmptyStringIsEmptyField ==
  \A k \in 1..3 :
    LET field == requiredFields[k]
        others == [decoded EXCEPT !.f[field] = IF field = "to" THEN JsStr(addr) ELSE JsStr(a1)]
    IN (/\ verdict # Pending
        /\ decoded.t = "object"
        /\ decoded.f[field].t = "string"
        /\ Len(trim(decoded.f[field].s)) = 0
        /\ AcceptedByContract(others)) =>
         verdict = Err("EmptyField", field, 0)

\* The lowest-numbered rule of the contract a decoded object violates:
\* 1 a field absent or not a string, 2 a field empty after trimming,
\* 3 `to` not shaped local@domain.tld, 0 none.
LowestViolatedRule(data) ==
  IF \E k \in 1..3 : data.f[requiredFields[k]].t # "string" THEN 1
  ELSE IF \E k \in 1..3 : ~NonEmptyString(data.f[requiredFields[k]]) THEN 2
  ELSE IF ~AddressShape(data.f["to"].s) THEN 3
  ELSE 0

\* The rule an error of the validator reports.
RuleOf(e) ==
  CASE e.type \in {"MissingField", "WrongType"} -> 1
    [] e.type = "EmptyField" -> 2
    [] e.type = "InvalidAddressFormat" -> 3
    [] OTHER -> 0

\* C12: the error reported for a decoded object belongs to the
\* lowest-numbered rule the object violates: presence and type of all
\* three fields before emptiness of any, emptiness before address shape.
LowestRuleWins ==
  (verdict # Pending /\ decoded.t = "object") =>
    RuleOf(verdict) = LowestViolatedRule(decoded)

CloseWaitsForDispatch ==
  transporter = "closed" => \A i \in Records : handler[i] # "awaiting"

\* C15: once shutdown has set the flags (isShuttingDown, isRunning =
\* false) no record begins to be processed: none is handed over, parsed
\* or validated.
NoRecordAfterStop ==
  [][isShuttingDown =>
       /\ handed' = handed
       /\ parseCalls' = parseCalls
       /\ validateCalls' = validateCalls]_vars

\* C16: when EmailService.initialize fails (the transport cannot be
\* created or is not verified) start fails with isRunning false and the
\* handler unregistered, no record is ever handed over, and verify has
\* been called at most once.
FailedInitializeLeavesStopped ==
  /\ verifyCalls <= 1
  /\ failedAt \in {"createFail", "verifyFail"} =>
       /\ started = "failed" /\ service \in {"catch", "failed"}
       /\ ~isRunning /\ ~isInitialized /\ ~registered
       /\ handed = 0 /\ \A i \in Records : parseCalls[i] = 0
       /\ verifyCalls = IF failedAt = "verifyFail" THEN 1 ELSE 0

\* A start that failed at verification, after its cleanup.
FailedInitializeLeavesStoppedWitness ==
  failedAt = "verifyFail" /\ exited /\ transporter = "closed"

\* C17: once a failed start has run its cleanup and exited, isRunning is
\* false, no handler is left registered with a consuming client, a
\* consumer that was created has had disconnect called and a transport
\* that was created has had close called, each exactly once; the
\* consumer is still connected or the transport open only if that call
\* threw.
FailedStartLeavesNothing ==
  (service = "failed" /\ exited) =>
    /\ ~isRunning
    /\ ~handlersInstalled
    /\ handed = 0
    /\ disconnectCalls = IF consumer = "null" THEN 0 ELSE 1
    /\ closeCalls = IF transporter = "null" THEN 0 ELSE 1
    /\ consumer \in {"connected", "subscribed"} => shutdown.disconnectThrew
    /\ transporter = "open" => shutdown.closeThrew

\* A start that failed while registering the handler, cleaned up.
FailedStartLeavesNothingWitness ==
  /\ service = "failed" /\ exited /\ failedAt = "runFail"
  /\ transporter = "closed" /\ consumer = "disconnected"

\* C18: whatever transporter.close and consumer.disconnect do (return or
\* throw), a shutdown that has begun returns to its caller, without
\* throwing and with isShuttingDown set, unless a second shutdown call
\* has ended the process before.
ShutdownCompletes ==
  isShuttingDown ~>
    \/ shutdown.pc = "returned" /\ isShuttingDown
    \/ shutdownCalls > 1

\* A shutdown that returned although both calls threw.
ShutdownCompletesWitness ==
  /\ shutdown.pc = "returned" /\ isShuttingDown /\ shutdownCalls = 1
  /\ shutdown.closeThrew /\ shutdown.disconnectThrew

\* C19: records are handled one at a time in hand-over order: a record
\* has been handed over only if every record before it has its outcome
\* recorded and its handler returned, so at most one handler is waiting
\* and outcomes are recorded in hand-over order.
OneRecordAtATime ==
  /\ \A i \in Records : (parseCalls[i] > 0) <=> (i <= handed)
  /\ \A i \in Records :
       i < handed => outcome[i].kind # "None" /\ handler[i] = "returned"
  /\ \A i, j \in Records :
       (i < j /\ outcome[j].kind # "None") => outcome[i].kind # "None"
  /\ Cardinality({i \in Records : handler[i] = "awaiting"}) <= 1

\* A record delivered after one that failed by timeout, whose retry loop
\* is still going.
OneRecordAtATimeWitness ==
  /\ handed = 2
  /\ outcome[1].err = TimeoutError /\ svc[1].pc = "inflight"
  /\ outcome[2].kind = "Delivered"

\* C20: at every moment the backend attempts being made or waiting for a
\* retry delay belong to at most one record.
SendingForOneRecord ==
  Cardinality({i \in Records : svc[i].pc \in {"inflight", "delay"}}) <= 1

\* C21: once the timer of a record has fired its recorded outcome is
\* Failed with the timeout error, and whatever the backend answers
\* afterwards changes neither that outcome nor the handler, which has
\* ended and logs nothing more.
LateResultDiscarded ==
  [][\A i \in Records :
       /\ timer'[i].st = "fired" =>
            outcome'[i] = Outcome("Failed", TimeoutError, NoResult)
       /\ timer[i].st = "fired" =>
            /\ outcome'[i] = outcome[i]
            /\ handler'[i] = handler[i]]_vars

\* The backend reported success after the timer had fired.
LateResultDiscardedWitness ==
  \E i \in Records :
    /\ timer[i].st = "fired" /\ svc[i].pc = "returned"
    /\ outcome[i] = Outcome("Failed", TimeoutError, NoResult)

\* C22: the consumer and sendEmail agree on every record: a record the
\* consumer recorded as Failed is never one whose sendEmail call
\* returned a delivery, and a record recorded as Delivered is one whose
\* sendEmail call returned.
OutcomesAgree ==
  \A i \in Records :
    /\ outcome[i].kind = "Failed" => svc[i].pc # "returned"
    /\ outcome[i].kind = "Delivered" =>
         svc[i].pc = "returned" /\ outcome[i].result = svc[i].result

ProcessingCompletes ==
  /\ [](\A i \in Records :
          handler[i] = "awaiting" =>
            timer[i].st = "armed" /\ timer[i].left <= 30000)
  /\ (\E i \in Records : handler[i] = "awaiting") ~>
       \/ exited
       \/ \A i \in Records :
            i <= handed => outcome[i].kind # "None" /\ handler[i] = "returned"

\* A record whose backend call was never answered, failed by its timer
\* in a process that runs on.
ProcessingCompletesWitness ==
  \E i \in Records :
    /\ responses[i] = <<>> /\ sendCalls[i] = 1
    /\ outcome[i].kind = "Failed" /\ handler[i] = "returned"
    /\ ~exited /\ ~isShuttingDown

\* Which answers of the backend were successes, the kinds of the errors
\* left out.
AnswerShape(answers) == [k \in 1..Len(answers) |-> answers[k] = "ok"]

\* C25: two sendEmail calls with the same arguments whose backends
\* answered with success and error in the same order, whatever the kinds
\* of the errors, have started the same delays, and when both have
\* ended they have ended the same way after the same number of attempts.
RetryIgnoresKind ==
  AnswerShape(run[1].answers) = AnswerShape(run[2].answers) =>
    /\ run[1].delays = run[2].delays
    /\ (run[1].pc \in {"returned", "threw"} /\ run[2].pc \in {"returned", "threw"}) =>
         /\ run[1].pc = run[2].pc
         /\ Len(run[1].sent) = Len(run[2].sent)

\* Three transient errors for one call and three permanent ones for the
\* other: both gave up after three attempts and the same two delays.
RetryIgnoresKindWitness ==
  /\ run[1].answers = <<"Transient", "Transient", "Transient">>
  /\ run[2].answers = <<"Permanent", "Permanent", "Permanent">>
  /\ run[1].pc = "threw" /\ run[2].pc = "threw"
  /\ Len(run[1].sent) = 3 /\ Len(run[2].sent) = 3
  /\ run[1].delays = <<1000, 2000>> /\ run[2].delays = <<1000, 2000>>

\* C26: the transport is verified at most once and closed at most once,
\* once created it is only ever closed, the initialized flag is never
\* taken back, and a step that hands over a record or carries its
\* handling on leaves the transport, the initialized, running and
\* shutdown flags and the verify and close counts as they are.
BackendStable ==
  [][/\ verifyCalls' <= 1
     /\ closeCalls' <= 1
     /\ transporter # "null" => transporter' \in {transporter, "closed"}
     /\ transporter = "closed" => transporter' = "closed"
     /\ isInitialized => isInitialized'
     /\ pipelineVars' # pipelineVars =>
          UNCHANGED <<transporter, isInitialized, isRunning, isShuttingDown,
                      verifyCalls, closeCalls>>]_vars

\* Two records handled, one failed and one delivered, on a transport
\* verified once and then closed once.
BackendStableWitness ==
  /\ handed = 2
  /\ outcome[1].kind = "Failed" /\ outcome[2].kind = "Delivered"
  /\ verifyCalls = 1 /\ closeCalls = 1 /\ transporter = "closed"
  /\ isInitialized

\* C27: the health query reports the consumer running exactly when its
\* start has succeeded and its stop has not been called: not before
\* start, not after a start that failed at any step, not after stop.
HealthRunningExactly ==
  getHealthStatus.isConsumerRunning <=> (started = "ok" /\ ~isShuttingDown)

\* The contract on message bodies, stated by position.

\* A "<" with a ">" somewhere after it.
HasTag(s) ==
  \E i \in 1..Len(s), j \in 1..Len(s) : i < j /\ s[i] = "<" /\ s[j] = ">"

\* Position k lies in a tag: from a "<" at or before k, with no ">"
\* between it and k, up to the first ">" at or after k.
InTag(s, k) ==
  \E i \in 1..k, j \in k..Len(s) :
    /\ i < j
    /\ s[i] = "<" /\ s[j] = ">"
    /\ \A m \in (i + 1)..(k - 1) : s[m] # ">"

\* s without the positions that lie in a tag.
TagsRemoved(s) ==
  LET kept == {k \in 1..Len(s) : ~InTag(s, k)}
      nth(n) == CHOOSE k \in kept : Cardinality({m \in kept : m <= k}) = n
  IN [n \in 1..Cardinality(kept) |-> s[nth(n)]]

RECURSIVE Concat(_)
Concat(parts) ==
  IF parts = <<>> THEN <<>> ELSE Head(parts) \o Concat(Tail(parts))

\* s with "<br>" in the place of every newline.
NewlinesAsBr(s) ==
  Concat([k \in 1..Len(s) |->
            IF s[k] = "\n" THEN <<"<", "b", "r", ">">> ELSE <<s[k]>>])

\* The space at position k is one of a pair: of the run of n spaces it
\* lies in, the first n spaces rounded down to an even number are paired.
PairedSpace(s, k) ==
  /\ s[k] = " "
  /\ LET first == CHOOSE a \in 1..k :
                    /\ \A m \in a..k : s[m] = " "
                    /\ a = 1 \/ s[a - 1] # " "
         last == CHOOSE b \in k..Len(s) :
                   /\ \A m \in k..b : s[m] = " "
                   /\ b = Len(s) \/ s[b + 1] # " "
     IN k - first < 2 * ((last - first + 1) \div 2)

\* s with "<br>" in the place of every newline and "&nbsp;" in the place
\* of every paired space.
NewlinesAsBrPairsAsNbsp(s) ==
  Concat([k \in 1..Len(s) |->
            IF s[k] = "\n" THEN <<"<", "b", "r", ">">>
            ELSE IF PairedSpace(s, k) THEN <<"&", "n", "b", "s", "p", ";">>
            ELSE <<s[k]>>])

\* C28 as stated: every payload given to the backend is the one built
\* before the first attempt; a body with a tag goes unchanged as the html
\* part and without its tags as the text part, any other body goes
\* unchanged as the text part and with "<br>" for every newline as the
\* html part.
BodyPartsNewlinesOnly ==
  run[1].sent # <<>> =>
    /\ \A k \in 1..Len(run[1].sent) : run[1].sent[k] = run[1].sent[1]
    /\ LET emailData == run[1].sent[1] IN
       IF HasTag(body)
       THEN emailData.html = body /\ emailData.text = TagsRemoved(body)
       ELSE emailData.text = body /\ emailData.html = NewlinesAsBr(body)

\* C28: every payload given to the backend is the one built before the
\* first attempt; a body with a tag goes unchanged as the html part and
\* without its tags as the text part, any other body goes unchanged as
\* the text part and, as the html part, with "<br>" for every newline
\* and "&nbsp;&nbsp;" for every pair of spaces.
BodyParts ==
  run[1].sent # <<>> =>
    /\ \A k \in 1..Len(run[1].sent) : run[1].sent[k] = run[1].sent[1]
    /\ LET emailData == run[1].sent[1] IN
       IF HasTag(body)
       THEN emailData.html = body /\ emailData.text = TagsRemoved(body)
       ELSE emailData.text = body /\ emailData.html = NewlinesAsBrPairsAsNbsp(body)

\* A body with a tag and text around it, given to the backend three
\* times.
BodyPartsWitness ==
  /\ body = <<"a", "<", ">", "a">>
  /\ Len(run[1].sent) = 3 /\ run[1].pc = "threw"
  /\ run[1].sent[3].text = <<"a", "a">>

TimeoutPerMessage ==
  [][\A i \in Records :
       /\ (timer[i].st # "armed" /\ timer'[i].st = "armed") =>
            /\ timer[i] = NoTimer
            /\ timer'[i].left = 30000
            /\ sendCalls[i] = 0 /\ sendCalls'[i] = 1
       /\ timer[i].st \in {"fired", "cleared"} => timer'[i] = timer[i]
       /\ (timer[i].st = "armed" /\ timer'[i].st = "armed") =>
            timer'[i].left <= timer[i].left
       /\ (timer[i].st = "armed" /\ timer'[i].st = "fired") =>
            /\ timer[i].left = 0
            /\ outcome'[i].kind = "Failed" /\ outcome'[i].err = TimeoutError
            /\ handler'[i] = "returned"
            /\ sendCalls'[i] \in 1..3]_vars

\* The timer fired during the delay after the second attempt: the record
\* is failed with two attempts made.
TimeoutPerMessageWitness ==
  \E i \in Records :
    /\ timer[i].st = "fired"
    /\ sendCalls[i] = 2 /\ svc[i].pc = "delay"
    /\ outcome[i].kind = "Failed" /\ outcome[i].err = TimeoutError

\* C31: every backend call of a record but the last has been answered
\* with an error, so a call is made only when all calls before it have
\* failed, at most one call of a record is answered with success and
\* none follows it, whether or not the record's timer has fired.
NoDuplicateEmail ==
  \A i \in Records :
    /\ Len(responses[i]) <= sendCalls[i]
    /\ sendCalls[i] <= Len(responses[i]) + 1
    /\ \A k \in 1..Len(responses[i]) :
         responses[i][k].ok => k = sendCalls[i]
    /\ Cardinality({k \in 1..Len(responses[i]) : responses[i][k].ok}) <= 1

\* A record whose timer fired during its first call: the call failed
\* afterwards and the second call, made in the background, succeeded.
NoDuplicateEmailWitness ==
  \E i \in Records :
    /\ timer[i].st = "fired"
    /\ Len(responses[i]) = 2 /\ sendCalls[i] = 2
    /\ ~responses[i][1].ok /\ responses[i][2].ok

\* C32: the process has exited only after the shutdown sequence has
\* returned, with transporter.close called if there is a transport and
\* consumer.disconnect called if there is a consumer.
ExitAfterShutdownDone ==
  exited =>
    /\ shutdown.pc = "returned"
    /\ HasTransporter(transporter) /\ HasNotificationConsumer(notificationConsumer)
         => closeCalls = 1
    /\ HasConsumer(consumer) => disconnectCalls = 1

\* C33: isInitialized is set only when the transport was created and
\* verified, the eachMessage handler is registered only with
\* isInitialized set, a payload has been given to the backend only with
\* isInitialized set, and a sendEmail call made without it has thrown
\* the not-initialized error with no payload given to the backend.
SendNeedsInitialize ==
  /\ isInitialized =>
       /\ transporter # "null" /\ verifyCalls = 1
       /\ failedAt \notin {"createFail", "verifyFail"}
  /\ registered => isInitialized
  /\ \A r \in Runs :
       /\ run[r].sent # <<>> => isInitialized
       /\ (run[r].pc # "idle" /\ ~isInitialized) =>
            run[r] = Run("threw", 0, NoEmailData, <<>>, <<>>, <<>>,
                         Err("NotInitialized", "", 0))

\* sendEmail called on a transport that was created but failed its
\* verification.
SendNeedsInitializeWitness ==
  /\ failedAt = "verifyFail" /\ transporter = "open" /\ ~isInitialized
  /\ run[1].pc = "threw" /\ run[1].err = Err("NotInitialized", "", 0)
  /\ run[1].sent = <<>>
  /\ run[2].pc = "idle"

\* C34: after a record has been handed over, the backend has been
\* called for it (once, the first attempt in flight) exactly if
\* _validateMessage accepts the decoded object; _validateEmailParams
\* accepts every object _validateMessage accepts, and sendEmail has not
\* thrown for its parameters.
ValidatedIsDispatched ==
  handed = 1 =>
    LET accepted == _validateMessage(decoded) = NoError IN
    /\ accepted =>
         /\ _validateEmailParams(Prop(decoded, "to"), Prop(decoded, "subject"),
                                 Prop(decoded, "message")) = NoError
         /\ sendCalls[1] = 1
         /\ svc[1].pc = "inflight" /\ svc[1].attempt = 1
    /\ (sendCalls[1] > 0 \/ svc[1].pc # "idle") => accepted
    /\ svc[1].err.type # "InvalidParams"

\* An accepted address with a "." before the "@", its first attempt in
\* flight.
ValidatedIsDispatchedWitness ==
  /\ handed = 1
  /\ decoded.t = "object"
  /\ Prop(decoded, "to") = JsStr(<<".", "@", "a", ".", "a">>)
  /\ sendCalls[1] = 1 /\ svc[1].pc = "inflight"

\* C35: what has been done at start-up is always an initial part of the
\* order: client and consumer created, connected, subscribed, transport
\* created, verified, isRunning set, handler registered, signal handlers
\* installed; and the step a start failed at and all steps after it
\* were never done.
StartupInOrder ==
  /\ handlersInstalled => registered
  /\ registered => isInitialized /\ started = "ok"
  /\ isRunning => isInitialized
  /\ isInitialized => transporter # "null" /\ verifyCalls = 1
  /\ (transporter # "null" \/ verifyCalls > 0 \/ notificationConsumer # "null") =>
       consumer \in {"subscribed", "disconnected"}
  /\ failedAt \in {"envFail", "clientFail"} => consumer = "null"
  /\ failedAt = "connectFail" => consumer \in {"created", "disconnected"}
  /\ failedAt = "subscribeFail" => consumer \in {"connected", "disconnected"}
  /\ failedAt \in {"envFail", "clientFail", "connectFail", "subscribeFail"} =>
       /\ notificationConsumer = "null" /\ transporter = "null"
       /\ verifyCalls = 0 /\ ~isInitialized /\ ~isRunning
       /\ ~registered /\ ~handlersInstalled
  /\ failedAt = "createFail" =>
       /\ transporter = "null" /\ verifyCalls = 0
       /\ ~isInitialized /\ ~isRunning /\ ~registered /\ ~handlersInstalled
  /\ failedAt = "verifyFail" =>
       /\ transporter # "null" /\ verifyCalls = 1
       /\ ~isInitialized /\ ~isRunning /\ ~registered /\ ~handlersInstalled
  /\ failedAt = "runFail" =>
       /\ isInitialized /\ verifyCalls = 1
       /\ ~registered /\ ~handlersInstalled
       /\ ~isShuttingDown => isRunning

\* A start that failed while registering the handler, before its
\* cleanup: isRunning is set, no handler of any kind is in place.
StartupInOrderWitness ==
  /\ failedAt = "runFail" /\ service = "catch" /\ ~isShuttingDown
  /\ consumer = "subscribed" /\ isInitialized /\ isRunning
  /\ ~registered /\ ~handlersInstalled

\* The handling of record i and its sendEmail call have both ended.
Done(i) ==
  /\ i <= handed
  /\ handler[i] = "returned"
  /\ svc[i].pc \in {"idle", "returned", "threw"}

\* C36: every record handed over is parsed, and dispatched if its value
\* is accepted, whatever its partition and offset and whether or not
\* they were seen before; and two records handled to the end with the
\* same value and the same backend answers, both within or both beyond
\* the timeout, have the same outcome and number of backend calls,
\* wherever they come in the sequence.
ProcessingStateless ==
  /\ \A i \in Records :
       i <= handed =>
         /\ parseCalls[i] = 1
         /\ (/\ _parseMessage(payload[i]).err = NoError
             /\ _validateMessage(payload[i].data) = NoError) => sendCalls[i] >= 1
  /\ \A i, j \in Records :
       (/\ Done(i) /\ Done(j)
        /\ payload[i] = payload[j]
        /\ responses[i] = responses[j]
        /\ timer[i].st = timer[j].st) =>
         /\ outcome[i] = outcome[j]
         /\ sendCalls[i] = sendCalls[j]

\* The same partition and offset handed over twice with the same value:
\* delivered twice, each on its second attempt.
ProcessingStatelessWitness ==
  /\ handed = 2
  /\ identity[1] = identity[2]
  /\ payload[1] = payload[2]
  /\ responses[1] = responses[2] /\ Len(responses[1]) = 2
  /\ outcome[1].kind = "Delivered" /\ outcome[2] = outcome[1]


\* C37: a record's timer is armed only while the record has no outcome:
\* once sendEmail has returned or thrown for a record whose timer had not
\* fired, the timer is cleared; a timer fires only for a record without
\* outcome, and the step in which the timer of one record fires leaves
\* the outcome, handler, timer and dispatch of every other record as
\* they were.
TimerCancelledOnCompletion ==
  /\ [](\A i \in Records :
          /\ outcome[i].kind # "None" => timer[i].st # "armed"
          /\ (svc[i].pc \in {"returned", "threw"} /\ timer[i].st # "fired") =>
               timer[i].st = "cleared")
  /\ [][\A i \in Records :
          (timer[i].st = "armed" /\ timer'[i].st = "fired") =>
            /\ outcome[i].kind = "None"
            /\ svc[i].pc \in {"inflight", "delay"}
            /\ \A j \in Records \ {i} :
                 /\ outcome'[j] = outcome[j]
                 /\ handler'[j] = handler[j]
                 /\ timer'[j] = timer[j]
                 /\ svc'[j] = svc[j]]_vars

\* The first record was delivered at its second attempt and its timer
\* cleared; afterwards the timer of the second record fired, and the
\* first record is still delivered.
TimerCancelledOnCompletionWitness ==
  /\ MaxRecords >= 2
  /\ outcome[1].kind = "Delivered" /\ sendCalls[1] = 2
  /\ timer[1].st = "cleared"
  /\ timer[2].st = "fired"
  /\ outcome[2].kind = "Failed" /\ outcome[2].err = TimeoutError

====
